---- MODULE Spec2Model ----
(***************************************************************************)
(* ConferenceBuilder (inspire_schemas/builders/conferences.py): a builder  *)
(* that accumulates a conference record, one add_ / set_ call at a time.   *)
(*                                                                         *)
(* Python values are tagged so that values of different types can be       *)
(* compared: None, str, int, bool, list (a sequence) and dict (a function  *)
(* from key to value).  Structural equality of tagged values is Python's   *)
(* == on the values used here (no position of the model mixes bool and     *)
(* int, the one place where Python's == is coarser).                       *)
(***************************************************************************)
EXTENDS Integers, Sequences, FiniteSets, TLC

VARIABLES
    self_record,    \* self.record
    self_source,    \* self.source
    ctor,           \* history: the record argument the constructor was given
    before,         \* history: self.record when the last call started
    last,           \* history: the last call, [op, args, kw]
    exc,            \* what the last call raised ("none" when it returned)
    again,          \* history: the last call repeats the call before it
    cnumArg,        \* history: argument of the latest set_cnum call that was not None
    nops            \* number of calls made so far

vars == <<self_record, self_source, ctor, before, last, again, exc, cnumArg, nops>>

\* Number of calls in a run of the model.
MaxOps == 2

(* ----------------------------- values ---------------------------------- *)

None == [t |-> "none"]
Str(s) == [t |-> "str", v |-> s]
Num(n) == [t |-> "int", v |-> n]
Bool(b) == [t |-> "bool", v |-> b]
List(s) == [t |-> "list", v |-> s]
Dict(f) == [t |-> "dict", v |-> f]

EmptyDict == Dict(<<>>)
EmptyList == List(<<>>)

\* bool(v): the truth value Python gives v in `if v:`.
Truthy(v) ==
    CASE v.t = "none" -> FALSE
      [] v.t = "str"  -> v.v # ""
      [] v.t = "int"  -> v.v # 0
      [] v.t = "bool" -> v.v
      [] v.t = "list" -> Len(v.v) > 0
      [] v.t = "dict" -> DOMAIN v.v # {}

\* x in seq, for a Python list.
In(x, l) == \E i \in 1..Len(l.v) : l.v[i] = x

\* k in d, d[k] and d[k] = v for a Python dict.
Has(d, k) == k \in DOMAIN d.v
Get(d, k) == d.v[k]
Put(d, k, v) == Dict((k :> v) @@ d.v)

\* dict(**kw) for a function kw from names to values.
Keys(f) == DOMAIN f
Restrict(f, S) == [k \in S |-> f[k]]

\* inspire_schemas.utils.EMPTIES: None, '', [] and {}.
EMPTIES == List(<<None, Str(""), EmptyList, EmptyDict>>)
IsEmpty(v) == In(v, EMPTIES)

(* ------------------------- calling a method ---------------------------- *)

\* What a call gives back: the record after it, and what it raised.
Ret(rec) == [rec |-> rec, exc |-> "none"]
Raise(rec, e) == [rec |-> rec, exc |-> e]

\* Python's binding of positional and keyword arguments to the parameters
\* `params` (a sequence of names), of which those in DOMAIN defaults are
\* optional.  [ok |-> FALSE] stands for the TypeError of a call that does
\* not fit the signature.
Bind(params, defaults, args, kw) ==
    LET names == {params[i] : i \in 1..Len(params)}
        npos == Len(args)
        positional == IF npos <= Len(params) THEN {params[i] : i \in 1..npos} ELSE {}
        given == positional \cup Keys(kw)
    IN IF \/ npos > Len(params)
          \/ ~(Keys(kw) \subseteq names)
          \/ positional \cap Keys(kw) # {}
          \/ ~((names \ Keys(defaults)) \subseteq given)
       THEN [ok |-> FALSE]
       ELSE [ok |-> TRUE,
             v |-> [p \in names |->
                      IF p \in Keys(kw) THEN kw[p]
                      ELSE IF p \in positional
                           THEN args[CHOOSE i \in 1..npos : params[i] = p]
                           ELSE defaults[p]]]

\* filter_empty_parameters: the keyword arguments that are not empty.
my_kwargs(kw) == Restrict(kw, {k \in Keys(kw) : ~IsEmpty(kw[k])})

\* filter_empty_parameters: TRUE when the wrapped method is not run at all:
\* every positional argument is empty and no keyword argument other than
\* the provenance one is left.
filter_skips(args, kw) ==
    /\ Keys(my_kwargs(kw)) \subseteq {"source", "material"}
    /\ \A i \in 1..Len(args) : IsEmpty(args[i])

(* --------------------------- primitives -------------------------------- *)

\* _ensure_field / _ensure_list_field: set the field when it is absent.
_ensure_field(rec, field_name, default_value) ==
    IF Has(rec, field_name) THEN rec ELSE Put(rec, field_name, default_value)

_ensure_list_field(rec, field_name, default_value) ==
    _ensure_field(rec, field_name,
                  IF default_value = None THEN EmptyList ELSE default_value)

\* Mutant: append without the membership test.
AppendNew_Always(rec, field, x) ==
    Put(rec, field, List(Append(Get(rec, field).v, x)))

\* Mutant: insert at the head of the list instead of appending.
AppendNew_Front(rec, field, x) ==
    IF In(x, Get(rec, field)) THEN rec
    ELSE Put(rec, field, List(<<x>> \o Get(rec, field).v))

\* self.record[field].append(x) unless x is already in it.
AppendNew(rec, field, x) ==
    IF In(x, Get(rec, field)) THEN rec
    ELSE Put(rec, field, List(Append(Get(rec, field).v, x)))

\* _sourced_dict(source, **kwargs), kwargs a dict.
_sourced_dict(self_src, src, kwargs) ==
    IF Truthy(src) THEN Put(kwargs, "source", src)
    ELSE IF Truthy(self_src) THEN Put(kwargs, "source", self_src)
    ELSE kwargs

\* Mutant: the record keyword argument is stored as given.
_append_to_body_NoRef(rec, field, element, default_list, kwargs) ==
    IF ~IsEmpty(element)
    THEN AppendNew(_ensure_list_field(rec, field, default_list), field, element)
    ELSE IF Keys(kwargs) # {}
    THEN AppendNew(_ensure_list_field(rec, field, default_list), field, Dict(kwargs))
    ELSE rec

\* The body of _append_to, with element and default_list bound and kwargs
\* the remaining keyword arguments.
_append_to_body(rec, field, element, default_list, kwargs) ==
    IF ~IsEmpty(element)
    THEN AppendNew(_ensure_list_field(rec, field, default_list), field, element)
    ELSE IF Keys(kwargs) # {}
    THEN LET kw1 == IF "record" \in Keys(kwargs) /\ kwargs["record"].t = "str"
                    THEN ("record" :> Dict("$ref" :> kwargs["record"])) @@ kwargs
                    ELSE kwargs
         IN AppendNew(_ensure_list_field(rec, field, default_list), field, Dict(kw1))
    ELSE rec

\* self._append_to(field, element) and self._append_to(field, **kw), through
\* the decorator: field is positional and never empty, so the body runs,
\* with the empty keyword arguments taken out.
_append_to(rec, field, element, kw) ==
    _append_to_body(rec, field, element, None, my_kwargs(kw))

\* _prepare_url(value, description)
_prepare_url(value, description) ==
    IF Truthy(description)
    THEN Dict(("value" :> value) @@ ("description" :> description))
    ELSE Dict("value" :> value)

(* ------------------------- the operations ------------------------------ *)
\* Each takes the record, the builder's default source and the binding b of
\* its parameters, and gives back the record after it and what it raised.

add_private_note(rec, src, b) ==
    Ret(_append_to(rec, "_private_notes", None,
                   ("source" :> b["source"]) @@ ("value" :> b["value"])))

add_acronym(rec, src, b) ==
    Ret(_append_to(rec, "acronyms", b["acronym"], <<>>))

add_address(rec, src, b) ==
    Ret(_append_to(rec, "addresses", None, b))

add_alternative_title(rec, src, b) ==
    LET sourced == _sourced_dict(src, b["source"], Dict("title" :> b["title"]))
        title_entry == IF b["subtitle"] # None
                       THEN Put(sourced, "subtitle", b["subtitle"])
                       ELSE sourced
    IN Ret(_append_to(rec, "alternative_titles", title_entry, <<>>))

\* Mutant: cnum is set only when the record has none yet.
set_cnum_Once(rec, src, b) ==
    IF b["cnum"] # None /\ ~Has(rec, "cnum")
    THEN Ret(Put(rec, "cnum", b["cnum"])) ELSE Ret(rec)

set_cnum(rec, src, b) ==
    IF b["cnum"] # None THEN Ret(Put(rec, "cnum", b["cnum"])) ELSE Ret(rec)

add_contact(rec, src, b) ==
    Ret(_append_to(rec, "contact_details", None, b))

add_external_system_identifier(rec, src, b) ==
    Ret(_append_to(rec, "external_system_identifiers", None,
                   ("schema" :> b["schema"]) @@ ("value" :> b["value"])))

\* The loop of add_inspire_categories over subject_terms[i..].
RECURSIVE categories_from(_, _, _, _, _)
categories_from(rec, src, terms, source_, i) ==
    IF i > Len(terms) THEN rec
    ELSE categories_from(
             _append_to(rec, "inspire_categories",
                        _sourced_dict(src, source_, Dict("term" :> terms[i])), <<>>),
             src, terms, source_, i + 1)

\* Iterating None raises TypeError; an empty str or list has no term.
add_inspire_categories(rec, src, b) ==
    CASE b["subject_terms"].t = "list" ->
             Ret(categories_from(rec, src, b["subject_terms"].v, b["source"], 1))
      [] b["subject_terms"] = Str("") -> Ret(rec)
      [] OTHER -> Raise(rec, "TypeError")

add_keyword(rec, src, b) ==
    LET sourced == _sourced_dict(src, b["source"], Dict("value" :> b["value"]))
        keyword_dict == IF b["schema"] # None
                        THEN Put(sourced, "schema", b["schema"])
                        ELSE sourced
    IN Ret(_append_to(rec, "keywords", keyword_dict, <<>>))

add_public_note(rec, src, b) ==
    Ret(_append_to(rec, "public_notes",
                   _sourced_dict(src, b["source"], Dict("value" :> b["value"])), <<>>))

\* Mutant: the series entry is built as a plain dict, without the source.
add_series_Unsourced(rec, src, b) ==
    LET plain == Dict("name" :> b["name"])
        serie_object == IF Truthy(b["number"])
                        THEN Put(plain, "number", b["number"])
                        ELSE plain
    IN Ret(_append_to(rec, "series", serie_object, <<>>))

add_series(rec, src, b) ==
    LET sourced == _sourced_dict(src, None, Dict("name" :> b["name"]))
        serie_object == IF Truthy(b["number"])
                        THEN Put(sourced, "number", b["number"])
                        ELSE sourced
    IN Ret(_append_to(rec, "series", serie_object, <<>>))

add_title(rec, src, b) ==
    LET sourced == _sourced_dict(src, b["source"], Dict("title" :> b["title"]))
        title_entry == IF b["subtitle"] # None
                       THEN Put(sourced, "subtitle", b["subtitle"])
                       ELSE sourced
    IN Ret(_append_to(rec, "titles", title_entry, <<>>))

add_url(rec, src, b) ==
    Ret(_append_to(rec, "urls", _prepare_url(b["value"], b["description"]), <<>>))

\* inspire_utils.date.normalize_date on the dates of the model: a date in a
\* loose form is brought to the canonical form, a canonical one is kept,
\* and anything else is an error.
normalize_date(date) ==
    CASE date = Str("2019-3-5")   -> [ok |-> TRUE, v |-> Str("2019-03-05")]
      [] date = Str("2019-03-05") -> [ok |-> TRUE, v |-> Str("2019-03-05")]
      [] date = Str("2019-03-09") -> [ok |-> TRUE, v |-> Str("2019-03-09")]
      [] OTHER                    -> [ok |-> FALSE]

set_closing_date(rec, src, b) ==
    IF b["date"] # None
    THEN LET n == normalize_date(b["date"])
         IN IF n.ok THEN Ret(Put(rec, "closing_date", n.v)) ELSE Raise(rec, "ValueError")
    ELSE Ret(rec)

set_core(rec, src, b) ==
    Ret(Put(rec, "core", b["core"]))

\* Mutant: the date is written as given before it is normalized, so that a
\* date the normalizer rejects is in the record when the error is raised.
set_opening_date_WriteFirst(rec, src, b) ==
    IF b["date"] # None
    THEN LET n == normalize_date(b["date"])
         IN IF n.ok THEN Ret(Put(rec, "opening_date", n.v))
            ELSE Raise(Put(rec, "opening_date", b["date"]), "ValueError")
    ELSE Ret(rec)

set_opening_date(rec, src, b) ==
    IF b["date"] # None
    THEN LET n == normalize_date(b["date"])
         IN IF n.ok THEN Ret(Put(rec, "opening_date", n.v)) ELSE Raise(rec, "ValueError")
    ELSE Ret(rec)

set_short_description(rec, src, b) ==
    Ret(Put(rec, "short_description",
            _sourced_dict(src, b["source"], Dict("value" :> b["value"]))))

\* validate(self.record, 'conferences'): the schema validation engine either
\* accepts the record or raises; it does not change the record.
validate_record(rec, ok) ==
    IF ok THEN Ret(rec) ELSE Raise(rec, "ValidationError")

(* --------------------------- signatures -------------------------------- *)

AddOps == {"add_private_note", "add_acronym", "add_address", "add_alternative_title",
           "add_contact", "add_external_system_identifier", "add_inspire_categories",
           "add_keyword", "add_public_note", "add_series", "add_title", "add_url"}

SetOps == {"set_cnum", "set_closing_date", "set_core", "set_opening_date",
           "set_short_description"}

\* Mutant: add_title left without the decorator.
Decorated_NotAddTitle == AddOps \ {"add_title"}

\* The methods under @filter_empty_parameters.
Decorated == AddOps

\* The parameters of each method after self, in order.
params(op) ==
    CASE op = "add_private_note" -> <<"value", "source">>
      [] op = "add_acronym" -> <<"acronym">>
      [] op = "add_address" -> <<"cities", "country_code", "latitude", "longitude",
                                 "place_name", "postal_address", "postal_code", "state">>
      [] op \in {"add_alternative_title", "add_title"} -> <<"title", "subtitle", "source">>
      [] op = "set_cnum" -> <<"cnum">>
      [] op = "add_contact" -> <<"name", "email", "curated_relation", "record">>
      [] op = "add_external_system_identifier" -> <<"value", "schema">>
      [] op = "add_inspire_categories" -> <<"subject_terms", "source">>
      [] op = "add_keyword" -> <<"value", "schema", "source">>
      [] op = "add_public_note" -> <<"value", "source">>
      [] op = "add_series" -> <<"name", "number">>
      [] op = "add_url" -> <<"value", "description">>
      [] op \in {"set_closing_date", "set_opening_date"} -> <<"date">>
      [] op = "set_core" -> <<"core">>
      [] op = "set_short_description" -> <<"value", "source">>

\* The parameters that have a default, and the default.
defaults(op) ==
    LET required ==
            CASE op \in {"add_alternative_title", "add_title"} -> {"title"}
              [] op = "add_external_system_identifier" -> {"value", "schema"}
              [] op = "add_inspire_categories" -> {"subject_terms"}
              [] op \in {"add_keyword", "add_public_note", "add_url",
                         "set_short_description"} -> {"value"}
              [] op = "add_series" -> {"name"}
              [] OTHER -> {}
        names == {params(op)[i] : i \in 1..Len(params(op))}
    IN [p \in names \ required |-> IF op = "set_core" THEN Bool(TRUE) ELSE None]

\* The method body of op on the bound parameters b.
Body(op, rec, src, b) ==
    CASE op = "add_private_note" -> add_private_note(rec, src, b)
      [] op = "add_acronym" -> add_acronym(rec, src, b)
      [] op = "add_address" -> add_address(rec, src, b)
      [] op = "add_alternative_title" -> add_alternative_title(rec, src, b)
      [] op = "set_cnum" -> set_cnum(rec, src, b)
      [] op = "add_contact" -> add_contact(rec, src, b)
      [] op = "add_external_system_identifier" ->
             add_external_system_identifier(rec, src, b)
      [] op = "add_inspire_categories" -> add_inspire_categories(rec, src, b)
      [] op = "add_keyword" -> add_keyword(rec, src, b)
      [] op = "add_public_note" -> add_public_note(rec, src, b)
      [] op = "add_series" -> add_series(rec, src, b)
      [] op = "add_title" -> add_title(rec, src, b)
      [] op = "add_url" -> add_url(rec, src, b)
      [] op = "set_closing_date" -> set_closing_date(rec, src, b)
      [] op = "set_core" -> set_core(rec, src, b)
      [] op = "set_opening_date" -> set_opening_date(rec, src, b)
      [] op = "set_short_description" -> set_short_description(rec, src, b)

\* builder.op(*args, **kw): a decorated method returns at once when the
\* decorator finds nothing to add, and else runs on the positional arguments
\* as given and the keyword arguments that are not empty.
Call(rec, src, c) ==
    IF c.op \in Decorated /\ filter_skips(c.args, c.kw)
    THEN Ret(rec)
    ELSE LET kw == IF c.op \in Decorated THEN my_kwargs(c.kw) ELSE c.kw
             b == Bind(params(c.op), defaults(c.op), c.args, kw)
         IN IF b.ok THEN Body(c.op, rec, src, b.v) ELSE Raise(rec, "TypeError")

(* ------------------------------ calls ---------------------------------- *)

\* builder.op(*args, **kw)
C(op, args, kw) == [op |-> op, args |-> args, kw |-> kw]

Arxiv == Str("arxiv")
Submitter == Str("submitter")

\* add_title / add_alternative_title: the title alone, the subtitle given
\* positionally and by keyword, with and without a source, calls with
\* nothing but empty arguments or with none, and a call without the title.
TitleCalls(op) ==
    {C(op, <<t>>, <<>>) : t \in {Str("A"), Str("B")}}
    \cup {C(op, <<Str("A"), Str("")>>, <<>>)}
    \cup {C(op, <<Str("A")>>, [subtitle |-> s, source |-> x]) :
              s \in {Str(""), Str("S")}, x \in {Arxiv}}
    \cup {C(op, <<>>, [title |-> None, subtitle |-> Str(""), source |-> None])}
    \cup {C(op, <<>>, [subtitle |-> Str("S")]), C(op, <<>>, <<>>)}

KeywordCalls ==
    {C("add_keyword", <<v>>, <<>>) : v \in {None, Str("k1")}}
    \cup {C("add_keyword", <<>>, [value |-> v, schema |-> Str("INSPIRE"), source |-> Arxiv]) :
              v \in {Str(""), Str("k1")}}

NoteCalls(op) ==
    {C(op, <<v>>, <<>>) : v \in {Str(""), Str("n1")}}
    \cup {C(op, <<>>, [value |-> v, source |-> x]) :
              v \in {None, Str("n1")}, x \in {Str(""), Arxiv}}

CategoryCalls ==
    {C("add_inspire_categories", <<l>>, <<>>) :
         l \in {EmptyList, List(<<Str("Theory"), Str("Lattice")>>)}}
    \cup {C("add_inspire_categories", <<>>, [subject_terms |-> l, source |-> Arxiv]) :
              l \in {None, List(<<Str("Theory"), Str("Theory")>>)}}

SeriesCalls ==
    {C("add_series", <<n>>, <<>>) : n \in {Str(""), Str("SUSY")}}
    \cup {C("add_series", <<>>, [name |-> Str("SUSY"), number |-> k]) :
              k \in {Num(0), Num(5)}}
    \cup {C("add_series", <<>>, [name |-> None, number |-> None])}
    \cup {C("add_series", <<Str("SUSY")>>, [source |-> Arxiv])}

UrlCalls ==
    {C("add_url", <<v, d>>, <<>>) :
         v \in {Str(""), Str("http://a")}, d \in {Str(""), Str("home")}}
    \cup {C("add_url", <<>>, [value |-> None, description |-> None])}

AcronymCalls ==
    {C("add_acronym", <<a>>, <<>>) : a \in {None, Str("SUSY 2018")}}
    \cup {C("add_acronym", <<>>, [acronym |-> a]) : a \in {Str(""), Str("ICHEP 2018")}}

AddressCalls ==
    {C("add_address", <<>>, [cities |-> l, country_code |-> cc, state |-> EmptyDict]) :
         l \in {EmptyList, List(<<Str("Geneva")>>)}, cc \in {None, Str("CH")}}
    \cup {C("add_address", <<EmptyList, Str("")>>, <<>>)}

ContactCalls ==
    {C("add_contact", <<>>, [name |-> Str("X"), record |-> r]) :
         r \in {None, Str("/records/42"), Dict("$ref" :> Str("/records/42"))}}
    \cup {C("add_contact", <<>>, [name |-> None, curated_relation |-> cr, record |-> EmptyDict]) :
              cr \in {None, Bool(FALSE)}}
    \cup {C("add_contact", <<None, Str("")>>, <<>>)}
    \cup {C("add_contact", <<Str("X"), None, None, Str("/records/42")>>, <<>>)}

IdentifierCalls ==
    {C("add_external_system_identifier", <<v, Str("SPIRES")>>, <<>>) :
         v \in {Str("C-1"), Str("C-2")}}
    \cup {C("add_external_system_identifier", <<>>, [value |-> v, schema |-> Str("")]) :
              v \in {None, Str("C-1")}}

CnumCalls ==
    {C("set_cnum", <<n>>, <<>>) : n \in {None, Str(""), Str("C05-01-01")}}
    \cup {C("set_cnum", <<>>, [cnum |-> Str("C06-02-02")])}
    \cup {C("set_cnum", <<>>, <<>>)}

CoreCalls ==
    {C("set_core", <<>>, <<>>)}
    \cup {C("set_core", <<f>>, <<>>) : f \in {Bool(FALSE)}}

DateCalls(op) ==
    {C(op, <<d>>, <<>>) : d \in {None, Str("2019-3-5"), Str("soon")}}
    \cup {C(op, <<>>, [date |-> Str("2019-03-09")])}
    \cup {C(op, <<>>, <<>>)}

DescriptionCalls ==
    {C("set_short_description", <<Str("d1")>>, <<>>)}
    \cup {C("set_short_description", <<>>, [value |-> Str("d2"), source |-> x]) :
              x \in {Str(""), Arxiv}}
    \cup {C("set_short_description", <<>>, <<>>)}

Calls(op) ==
    CASE op \in {"add_title", "add_alternative_title"} -> TitleCalls(op)
      [] op = "add_keyword" -> KeywordCalls
      [] op \in {"add_public_note", "add_private_note"} -> NoteCalls(op)
      [] op = "add_inspire_categories" -> CategoryCalls
      [] op = "add_series" -> SeriesCalls
      [] op = "add_url" -> UrlCalls
      [] op = "add_acronym" -> AcronymCalls
      [] op = "add_address" -> AddressCalls
      [] op = "add_contact" -> ContactCalls
      [] op = "add_external_system_identifier" -> IdentifierCalls
      [] op = "set_cnum" -> CnumCalls
      [] op = "set_core" -> CoreCalls
      [] op \in {"set_opening_date", "set_closing_date"} -> DateCalls(op)
      [] op = "set_short_description" -> DescriptionCalls

\* The value a call passes for parameter number i, named p: None when the
\* call passes none.
ArgOf(c, i, p) ==
    IF p \in Keys(c.kw) THEN c.kw[p]
    ELSE IF i <= Len(c.args) THEN c.args[i] ELSE None

(* ------------------------- the state machine --------------------------- *)

\* The record a fresh builder starts from (__init__ with record=None).
FreshRecord == Dict("_collections" :> List(<<Str("Conferences")>>))

\* Records handed to the constructor for further editing.
ExistingRecords ==
    {EmptyDict,
     Dict(("_collections" :> List(<<Str("Conferences")>>))
          @@ ("titles" :> List(<<Dict("title" :> Str("A"))>>)))}

\* Mutant: a fresh builder starts from an empty record.
init_NoMarker(rec, src) ==
    /\ self_record = IF rec = None THEN EmptyDict ELSE rec
    /\ self_source = src

\* ConferenceBuilder(record, source)
__init__(rec, src) ==
    /\ self_record = IF rec = None THEN FreshRecord ELSE rec
    /\ self_source = src

NoCall == C("__init__", <<>>, <<>>)

Init ==
    /\ \E rec \in {None} \cup ExistingRecords, src \in {None, Str(""), Submitter} :
           /\ __init__(rec, src)
           /\ ctor = rec
    /\ before = self_record
    /\ last = NoCall
    /\ again = FALSE
    /\ exc = "none"
    /\ cnumArg = None
    /\ nops = 0

\* One call of the builder, with the history variables kept.
Do(c, r) ==
    /\ self_record' = r.rec
    /\ exc' = r.exc
    /\ before' = self_record
    /\ last' = c
    /\ again' = (c = last)
    /\ nops' = nops + 1
    /\ cnumArg' = IF c.op = "set_cnum" /\ ArgOf(c, 1, "cnum") # None
                  THEN ArgOf(c, 1, "cnum") ELSE cnumArg
    /\ UNCHANGED <<self_source, ctor>>

\* The model makes at most MaxOps calls.
MayCall == nops < MaxOps

Step(op) == \E c \in Calls(op) : Do(c, Call(self_record, self_source, c))

AddPrivateNote ==
    /\ MayCall
    /\ Step("add_private_note")

AddAcronym ==
    /\ MayCall
    /\ Step("add_acronym")

AddAddress ==
    /\ MayCall
    /\ Step("add_address")

AddAlternativeTitle ==
    /\ MayCall
    /\ Step("add_alternative_title")

SetCnum ==
    /\ MayCall
    /\ Step("set_cnum")

AddContact ==
    /\ MayCall
    /\ Step("add_contact")

AddExternalSystemIdentifier ==
    /\ MayCall
    /\ Step("add_external_system_identifier")

AddInspireCategories ==
    /\ MayCall
    /\ Step("add_inspire_categories")

AddKeyword ==
    /\ MayCall
    /\ Step("add_keyword")

AddPublicNote ==
    /\ MayCall
    /\ Step("add_public_note")

AddSeries ==
    /\ MayCall
    /\ Step("add_series")

AddTitle ==
    /\ MayCall
    /\ Step("add_title")

AddUrl ==
    /\ MayCall
    /\ Step("add_url")

SetClosingDate ==
    /\ MayCall
    /\ Step("set_closing_date")

SetCore ==
    /\ MayCall
    /\ Step("set_core")

SetOpeningDate ==
    /\ MayCall
    /\ Step("set_opening_date")

SetShortDescription ==
    /\ MayCall
    /\ Step("set_short_description")


ValidateRecord ==
    /\ MayCall
    /\ \E ok \in BOOLEAN :
        Do(C("validate_record", <<>>, <<>>), validate_record(self_record, ok))

Next ==
    \/ AddPrivateNote
    \/ AddAcronym
    \/ AddAddress
    \/ AddAlternativeTitle
    \/ SetCnum
    \/ AddContact
    \/ AddExternalSystemIdentifier
    \/ AddInspireCategories
    \/ AddKeyword
    \/ AddPublicNote
    \/ AddSeries
    \/ AddTitle
    \/ AddUrl
    \/ SetClosingDate
    \/ SetCore
    \/ SetOpeningDate
    \/ SetShortDescription
    \/ ValidateRecord

Spec == Init /\ [][Next]_vars

(* --------------------------- the properties ---------------------------- *)

\* The repeatable field each add_ operation appends to.
FieldOf(op) ==
    CASE op = "add_private_note" -> "_private_notes"
      [] op = "add_acronym" -> "acronyms"
      [] op = "add_address" -> "addresses"
      [] op = "add_alternative_title" -> "alternative_titles"
      [] op = "add_contact" -> "contact_details"
      [] op = "add_external_system_identifier" -> "external_system_identifiers"
      [] op = "add_inspire_categories" -> "inspire_categories"
      [] op = "add_keyword" -> "keywords"
      [] op = "add_public_note" -> "public_notes"
      [] op = "add_series" -> "series"
      [] op = "add_title" -> "titles"
      [] op = "add_url" -> "urls"

RepeatableFields == {FieldOf(op) : op \in AddOps}

\* The entries of a repeatable field, none when the field is absent.
Entries(rec, f) == IF Has(rec, f) THEN Get(rec, f).v ELSE <<>>

\* The entries the last call appended to field f.
Added(f) ==
    SubSeq(Entries(self_record, f), Len(Entries(before, f)) + 1,
           Len(Entries(self_record, f)))

NoDuplicates(q) == \A i, j \in 1..Len(q) : q[i] = q[j] => i = j

IsPrefix(p, q) == Len(p) <= Len(q) /\ \A i \in 1..Len(p) : p[i] = q[i]

\* Every argument the call passes is None or empty.
AllArgsEmpty(c) ==
    /\ \A i \in 1..Len(c.args) : IsEmpty(c.args[i])
    /\ \A k \in Keys(c.kw) : IsEmpty(c.kw[k])

\* C1: in a builder made with no initial record no repeatable field ever
\* holds two equal entries, and an add_ call that repeats the call before it
\* leaves the record as it was.
C1_Dedup ==
    /\ ctor = None =>
           \A f \in RepeatableFields : NoDuplicates(Entries(self_record, f))
    /\ (again /\ last.op \in AddOps) => self_record = before

\* C1 witness: the same add_title call made twice on a fresh builder, the
\* title there once.
C1_Witness ==
    /\ ctor = None /\ again /\ nops = 2
    /\ last = C("add_title", <<Str("A")>>, [subtitle |-> Str("S"), source |-> Arxiv])
    /\ Len(Entries(self_record, "titles")) = 1

\* C2: an add_ call whose arguments are all None or empty returns without
\* raising and leaves the record as it was, no field created.
C2_EmptyCallNoOp ==
    (last.op \in AddOps /\ AllArgsEmpty(last)) =>
        (self_record = before /\ exc = "none")

\* C2 witness: add_contact(None, '') after a call that did add an entry.
C2_Witness ==
    /\ last = C("add_contact", <<None, Str("")>>, <<>>)
    /\ nops = 2
    /\ Len(Entries(self_record, "titles")) = 1
    /\ ~Has(self_record, "contact_details")

\* C4: a call leaves, in every repeatable field, the entries that were there
\* where they were, and puts what it adds after them.
C4_AppendOnly ==
    \A f \in RepeatableFields :
        IsPrefix(Entries(before, f), Entries(self_record, f))

\* C4 witness: add_title('A') then add_title('B').
C4_Witness ==
    /\ ctor = None /\ self_source = None
    /\ last = C("add_title", <<Str("B")>>, <<>>)
    /\ Entries(self_record, "titles")
           = <<Dict("title" :> Str("A")), Dict("title" :> Str("B"))>>

\* The operations that take a source argument, and the number and name of
\* the parameter that carries the payload.
SourcedOps == {"add_title", "add_alternative_title", "add_keyword", "add_public_note",
               "add_private_note", "add_inspire_categories", "set_short_description"}

\* The source the precedence rule gives an entry written by call c.
ExpectedSource(c) ==
    LET i == CHOOSE k \in 1..Len(params(c.op)) : params(c.op)[k] = "source"
        given == ArgOf(c, i, "source")
    IN IF Truthy(given) THEN given
       ELSE IF Truthy(self_source) THEN self_source ELSE None

HasSource(e, x) ==
    IF x = None THEN ~Has(e, "source") ELSE Has(e, "source") /\ Get(e, "source") = x

\* C3: an entry written by an operation that takes a source carries the
\* call's source when it gives one, else the builder's default source when
\* it has one, else no source.
C3_SourcePrecedence ==
    (last.op \in SourcedOps /\ exc = "none") =>
        IF last.op = "set_short_description"
        THEN HasSource(Get(self_record, "short_description"), ExpectedSource(last))
        ELSE \A i \in 1..Len(Added(FieldOf(last.op))) :
                 HasSource(Added(FieldOf(last.op))[i], ExpectedSource(last))

\* C5: for calls that give record as a string or as a mapping {'$ref': s}:
\* the contact add_contact appends holds record as {'$ref': s} when the call
\* gave the string s, holds the mapping the call gave when it gave one, and
\* no contact of the record holds a bare string as its record.
C5_ReferenceShape ==
    /\ \A i \in 1..Len(Entries(self_record, "contact_details")) :
           LET e == Entries(self_record, "contact_details")[i]
           IN Has(e, "record") =>
                  /\ Get(e, "record").t = "dict"
                  /\ Keys(Get(e, "record").v) = {"$ref"}
    /\ (last.op = "add_contact" /\ Len(Added("contact_details")) = 1) =>
           LET e == Added("contact_details")[1]
               r == ArgOf(last, 4, "record")
           IN /\ r.t = "str" /\ r # Str("") => Get(e, "record") = Dict("$ref" :> r)
              /\ r.t = "dict" /\ r # EmptyDict => Get(e, "record") = r
              /\ IsEmpty(r) => ~Has(e, "record")

\* C5 witness: add_contact(name='X', record='/records/42') has appended a
\* contact whose record is {'$ref': '/records/42'}.
C5_Witness ==
    /\ last = C("add_contact", <<>>, [name |-> Str("X"), record |-> Str("/records/42")])
    /\ Added("contact_details")
           = <<Dict(("name" :> Str("X"))
                    @@ ("record" :> Dict("$ref" :> Str("/records/42"))))>>

\* C6: record['cnum'] is the argument of the latest set_cnum call whose
\* argument was not None, and is absent when there was no such call (the
\* records a builder is constructed with hold no cnum).
C6_ScalarOverwrite ==
    IF cnumArg = None
    THEN ~Has(self_record, "cnum")
    ELSE Has(self_record, "cnum") /\ Get(self_record, "cnum") = cnumArg

\* C6 witness: set_cnum('C05-01-01') then set_cnum(cnum='C06-02-02').
C6_Witness ==
    /\ last = C("set_cnum", <<>>, [cnum |-> Str("C06-02-02")])
    /\ Has(before, "cnum") /\ Get(before, "cnum") = Str("C05-01-01")
    /\ Get(self_record, "cnum") = Str("C06-02-02")

Marker == List(<<Str("Conferences")>>)

\* C7 as stated: the record always holds the '_collections' marker of a
\* Conferences record, whatever the builder was constructed with.
C7_MarkerAlways ==
    /\ Has(self_record, "_collections")
    /\ Get(self_record, "_collections") = Marker
    /\ (ctor = None /\ nops = 0) => self_record = FreshRecord

\* C7 amended: a builder constructed with no initial record starts from
\* exactly {'_collections': ['Conferences']} and keeps the marker; one
\* constructed with an existing record holds the marker exactly when that
\* record does; no operation adds, removes or changes the marker.
C7_MarkerKept ==
    /\ (ctor = None /\ nops = 0) => self_record = FreshRecord
    /\ ctor = None =>
           Has(self_record, "_collections") /\ Get(self_record, "_collections") = Marker
    /\ ctor # None =>
           /\ Has(self_record, "_collections") <=> Has(ctor, "_collections")
           /\ Has(ctor, "_collections") =>
                  Get(self_record, "_collections") = Get(ctor, "_collections")

\* C7 witness: two calls that changed a fresh builder's record, the marker
\* still there.
C7_Witness ==
    /\ ctor = None /\ nops = 2
    /\ before # FreshRecord /\ self_record # before
    /\ Get(self_record, "_collections") = Marker

\* C8: a title entry holds a subtitle only when the call gave a subtitle
\* that is neither None nor empty, and then holds that subtitle.
C8_SubtitleOnlyIfPresent ==
    (last.op \in {"add_title", "add_alternative_title"}) =>
        \A i \in 1..Len(Added(FieldOf(last.op))) :
            LET e == Added(FieldOf(last.op))[i]
                given == ArgOf(last, 2, "subtitle")
            IN Has(e, "subtitle") =>
                   (~IsEmpty(given) /\ Get(e, "subtitle") = given)

DateField(op) == IF op = "set_opening_date" THEN "opening_date" ELSE "closing_date"

\* C9: set_opening_date and set_closing_date write the normalized date when
\* the date is not None and normalizes; they leave the record as it was when
\* the date is None, and when the normalizer raises, whose error the call
\* then raises.
C9_DateWrite ==
    (last.op \in {"set_opening_date", "set_closing_date"}) =>
        LET date == ArgOf(last, 1, "date")
        IN IF date = None
           THEN self_record = before /\ exc = "none"
           ELSE IF normalize_date(date).ok
           THEN /\ self_record = Put(before, DateField(last.op), normalize_date(date).v)
                /\ exc = "none"
           ELSE self_record = before /\ exc = "ValueError"

\* C9 witness: set_opening_date('soon') raised, and the opening date set by
\* the call before it is still there.
C9_Witness ==
    /\ last = C("set_opening_date", <<Str("soon")>>, <<>>)
    /\ exc = "ValueError"
    /\ Has(self_record, "opening_date")
    /\ Get(self_record, "opening_date") = Str("2019-03-05")

\* C10: an entry add_series appends carries the builder's default source
\* exactly when that source is not empty, and a call cannot give a source of
\* its own: it raises, and the record is as it was.
C10_SeriesSource ==
    (last.op = "add_series") =>
        /\ \A i \in 1..Len(Added("series")) :
               HasSource(Added("series")[i],
                         IF Truthy(self_source) THEN self_source ELSE None)
        /\ "source" \in Keys(last.kw) /\ ~AllArgsEmpty(last) =>
               (exc = "TypeError" /\ self_record = before)

\* C10 witness: add_series(name='SUSY', number=5) on a builder whose default
\* source is 'submitter'.
C10_Witness ==
    /\ self_source = Submitter
    /\ last = C("add_series", <<>>, [name |-> Str("SUSY"), number |-> Num(5)])
    /\ Added("series")
           = <<Dict(("name" :> Str("SUSY")) @@ ("number" :> Num(5))
                    @@ ("source" :> Submitter))>>

====
